---- MODULE Spec2Model ----
(***************************************************************************)
(* Model of the turnstile wrangling pipeline of wrangle_data.py, the      *)
(* metrics of get_metrics.py and the downloader get_data.py.               *)
(*                                                                         *)
(* A pandas DataFrame is a record [columns, rows]: the set of column names *)
(* and the sequence of rows.  A row is a record that carries its pandas    *)
(* index label in the field "index" (labels survive row filtering and are  *)
(* renumbered only by reset_index / ignore_index).  A string cell is a     *)
(* sequence of one-character strings, so that strip and + (concatenation)  *)
(* are computed as pandas computes them.  A float cell that may be missing *)
(* is <<>> (NaN) or <<v>>.                                                 *)
(*                                                                         *)
(* Cells of the raw file are never empty in this model (read_csv yields no *)
(* NaN), and the columns division and desc, which clean only strips, are   *)
(* left out.                                                               *)
(***************************************************************************)
EXTENDS Integers, Sequences, FiniteSets, TLC

VARIABLES raw, df, prev, stage, args, out, err,
          cache, fetched, dates, pos, curr, end, cutoff

vars == <<raw, df, prev, stage, args, out, err,
          cache, fetched, dates, pos, curr, end, cutoff>>

\* The state of the file functions (read_files, get_data and the two
\* Saturday loops): the ./mta_data directory, the requests sent, the list
\* of dates being built or walked, the position in it, and the locals
\* curr, end and cutoff of the loops.
fileVars == <<cache, fetched, dates, pos, curr, end, cutoff>>

\* No directory, no request, no loop: the file functions are not running.
NoFiles ==
    /\ cache = [isdir |-> FALSE, files |-> <<>>]
    /\ fetched = <<>>
    /\ dates = <<>>
    /\ pos = 0
    /\ curr = 0
    /\ end = 0
    /\ cutoff = 0

-----------------------------------------------------------------------------
(* Bounds of the model *)

\* Rows of the raw table read by read_files.
MaxRows == 3
\* Timestamps of the raw readings are 1..MaxTime.
MaxTime == 3
\* Cumulative counters of the raw readings are 0..MaxCount.
MaxCount == 1

-----------------------------------------------------------------------------
(* Generic helpers *)

NaN == <<>>

IsNaN(v) == v = <<>>

Val(v) == v[1]

Range(s) == {s[i] : i \in 1..Len(s)}

\* Lexicographic order on integer tuples of equal length.
RECURSIVE LexLess(_, _)
LexLess(a, b) ==
    IF a = <<>> THEN FALSE
    ELSE IF Head(a) # Head(b) THEN Head(a) < Head(b)
         ELSE LexLess(Tail(a), Tail(b))

\* str.strip(): leading and trailing whitespace removed.
RECURSIVE LStrip(_)
LStrip(s) == IF s # <<>> /\ Head(s) = " " THEN LStrip(Tail(s)) ELSE s

RECURSIVE RStrip(_)
RStrip(s) ==
    IF s # <<>> /\ s[Len(s)] = " " THEN RStrip(SubSeq(s, 1, Len(s) - 1)) ELSE s

Strip(s) == RStrip(LStrip(s))

\* pd.factorize(values)[0]: each value's code is the number of distinct
\* values that appear before its first occurrence.
FirstPos(vals, i) == CHOOSE j \in 1..i : vals[j] = vals[i] /\ \A k \in 1..(j-1) : vals[k] # vals[i]

Factorize(vals) ==
    [i \in 1..Len(vals) |->
        Cardinality({vals[k] : k \in 1..(FirstPos(vals, i) - 1)})]

-----------------------------------------------------------------------------
(* read_files: the raw table *)

RawColumns == {"datetime", "c_a", "unit", "scp", "station", "linename",
               "entries", "exits"}

\* Natural keys of the raw readings: <<c_a, unit, scp, station, linename>>.
\* The second differs from the first only in where c_a ends and unit
\* starts, the third is the first turnstile under a different line
\* designator and with padded cells, the fourth is another turnstile of
\* the first one's booth.
Keys == { << <<"A">>, <<"B", "C">>, <<"0">>, <<"S">>, <<"L">> >>,
          << <<"A", "B">>, <<"C">>, <<"0">>, <<"S">>, <<"L">> >>,
          << <<"A", " ">>, <<"B", "C">>, <<"0">>, <<" ", "S">>, <<"M">> >>,
          << <<"A">>, <<"B", "C">>, <<"1">>, <<"S">>, <<"L">> >> }

RawRow(i, k, t, en, ex) ==
    [index |-> i, c_a |-> k[1], unit |-> k[2], scp |-> k[3], station |-> k[4],
     linename |-> k[5], datetime |-> t, entries |-> en, exits |-> ex]

EmptyRaw == [columns |-> RawColumns, rows |-> <<>>]

\* pd.concat([df, read_file(dt)], ignore_index=True), one row at a time.
Concat(frame, k, t, en, ex) ==
    [frame EXCEPT !.rows = Append(@, RawRow(Len(@), k, t, en, ex))]

-----------------------------------------------------------------------------
(* clean *)

TuidKey(r) == r.c_a \o r.unit \o r.scp \o r.station

SuidKey(r) == r.station \o r.linename

BuidKey(r) == r.c_a \o r.unit \o r.station \o r.linename

StripRow(r) ==
    [r EXCEPT !.c_a = Strip(@), !.unit = Strip(@), !.scp = Strip(@),
              !.station = Strip(@), !.linename = Strip(@)]

\* The three factorize calls: every row gets tuid, suid and buid.
AddIds(rows) ==
    LET tu == Factorize([i \in 1..Len(rows) |-> TuidKey(rows[i])])
        su == Factorize([i \in 1..Len(rows) |-> SuidKey(rows[i])])
        bu == Factorize([i \in 1..Len(rows) |-> BuidKey(rows[i])])
    IN  [i \in 1..Len(rows) |->
            ("tuid" :> tu[i] @@ "suid" :> su[i] @@ "buid" :> bu[i]) @@ rows[i]]

SortKey(r) == <<r.suid, r.tuid, r.datetime>>

\* df.sort_values(['suid','tuid','datetime']): a stable sort (rows with
\* equal keys keep their order), then reset_index(drop=True).
SortValues(rows) ==
    LET n == Len(rows)
        Before(j, i) == \/ LexLess(SortKey(rows[j]), SortKey(rows[i]))
                        \/ SortKey(rows[j]) = SortKey(rows[i]) /\ j < i
        Pos(i) == 1 + Cardinality({j \in 1..n : Before(j, i)})
    IN  [p \in 1..n |-> LET i == CHOOSE i \in 1..n : Pos(i) = p
                        IN  [rows[i] EXCEPT !.index = p - 1]]

\* df.groupby('suid')['tuid'].nunique() mapped onto every row.
AddTsCount(rows) ==
    [i \in 1..Len(rows) |->
        ("ts_count" :>
            Cardinality({rows[j].tuid : j \in {j \in 1..Len(rows) : rows[j].suid = rows[i].suid}}))
        @@ rows[i]]

Clean(frame) ==
    [columns |-> frame.columns \cup {"tuid", "suid", "buid", "ts_count"},
     rows |-> AddTsCount(SortValues(AddIds([i \in 1..Len(frame.rows) |-> StripRow(frame.rows[i])])))]

-----------------------------------------------------------------------------
(* calc_nets *)

\* more than 1 person every 2 secs is unlikely
Threshold == 7200

\* calc_nets without its early return.
NeverAlreadyRun(frame) == FALSE

\* The early return: calc_nets has already been run.
AlreadyRun(frame) == {"net_entries", "net_exits"} \subseteq frame.columns

\* tuid_groups[col].diff(): the row's value minus the value of the previous
\* row of the same tuid in frame order; NaN on the first row of a tuid.
GroupDiff(rows, col) ==
    [i \in 1..Len(rows) |->
        LET same == {j \in 1..(i-1) : rows[j].tuid = rows[i].tuid}
        IN  IF same = {} THEN NaN
            ELSE LET p == CHOOSE j \in same : \A k \in same : k <= j
                 IN  <<rows[i][col] - rows[p][col]>>]

\* Series.shift(-1): every value moves up one row of the frame; the last
\* row gets NaN.
ShiftUp(s) == [i \in 1..Len(s) |-> IF i < Len(s) THEN s[i+1] ELSE NaN]

\* The filter with the threshold itself excluded.
InRangeBelow(v) == v >= 0 /\ v < Threshold

InRange(v) == v >= 0 /\ v <= Threshold

KeepRow(r) == InRange(r.net_entries) /\ InRange(r.net_exits)

\* df[col] = values: the column is added, or overwritten when it exists.
SetCol(r, col, v) == (col :> v) @@ r

CalcNets(frame) ==
    IF AlreadyRun(frame) THEN frame
    ELSE
    LET rows == frame.rows
        ne   == ShiftUp(GroupDiff(rows, "entries"))
        nx   == ShiftUp(GroupDiff(rows, "exits"))
        \* df.dropna(): the positions whose new cells are both present
        notna == SelectSeq([i \in 1..Len(rows) |-> i],
                           LAMBDA i : ~IsNaN(ne[i]) /\ ~IsNaN(nx[i]))
        \* astype(int)
        dropped == [k \in 1..Len(notna) |->
                      SetCol(SetCol(rows[notna[k]], "net_entries", Val(ne[notna[k]])),
                             "net_exits", Val(nx[notna[k]]))]
        kept == SelectSeq(dropped, KeepRow)
    IN  [columns |-> frame.columns \cup {"net_entries", "net_exits", "traffic"},
         rows |-> [i \in 1..Len(kept) |->
                     SetCol(kept[i], "traffic", kept[i].net_entries + kept[i].net_exits)]]

-----------------------------------------------------------------------------
(* run: read_files, clean, calc_nets *)

Init ==
    /\ NoFiles
    /\ raw = EmptyRaw
    /\ df = EmptyRaw
    /\ prev = EmptyRaw
    /\ stage = "read"
    /\ args = {}
    /\ out = EmptyRaw
    /\ err = FALSE

ReadRow ==
    /\ stage = "read"
    /\ Len(raw.rows) < MaxRows
    /\ \E k \in Keys, t \in 1..MaxTime, en \in 0..MaxCount, ex \in 0..MaxCount :
          raw' = Concat(raw, k, t, en, ex)
    /\ UNCHANGED <<df, prev, stage, args, out, err>>
    /\ UNCHANGED fileVars

DoClean ==
    /\ stage = "read"
    /\ df' = Clean(raw)
    /\ stage' = "clean"
    /\ UNCHANGED <<raw, prev, args, out, err>>
    /\ UNCHANGED fileVars

DoCalcNets ==
    /\ stage = "clean"
    /\ prev' = df
    /\ df' = CalcNets(df)
    /\ stage' = "nets"
    /\ UNCHANGED <<raw, args, out, err>>
    /\ UNCHANGED fileVars

\* calc_nets called on its own output.
DoCalcNetsAgain ==
    /\ stage = "nets"
    /\ prev' = df
    /\ df' = CalcNets(df)
    /\ stage' = "again"
    /\ UNCHANGED <<raw, args, out, err>>
    /\ UNCHANGED fileVars

Next == ReadRow \/ DoClean \/ DoCalcNets

Spec == Init /\ [][Next]_vars

-----------------------------------------------------------------------------
(* calc_nets on any table: the rows need only tuid, entries and exits *)

\* Turnstile ids of the tables handed to calc_nets directly are 0..MaxTuid.
MaxTuid == 1

NetInputColumns == {"tuid", "entries", "exits"}

NettedColumns == NetInputColumns \cup {"net_entries", "net_exits", "traffic"}

\* Counter values on both sides of the threshold: the differences between
\* them are 0, 1, 7200, 7201 and their negatives.
EntryVals == {0, 1, Threshold + 1}

ExitVals == {1, Threshold + 1}

\* Net values of a table that already has the net columns, whoever made it.
NetVals == {-1, Threshold + 1}

InitNets ==
    /\ NoFiles
    /\ raw \in {[columns |-> NetInputColumns, rows |-> <<>>],
                [columns |-> NettedColumns, rows |-> <<>>]}
    /\ df = raw
    /\ prev = raw
    /\ stage = "input"
    /\ args = {}
    /\ out = EmptyRaw
    /\ err = FALSE

AddReading ==
    /\ stage = "input"
    /\ ~AlreadyRun(raw)
    /\ Len(raw.rows) < MaxRows
    /\ \E u \in 0..MaxTuid, en \in EntryVals, ex \in ExitVals :
          raw' = [raw EXCEPT !.rows = Append(@,
                    [index |-> Len(@), tuid |-> u, entries |-> en, exits |-> ex])]
    /\ df' = raw'
    /\ UNCHANGED <<prev, stage, args, out, err>>
    /\ UNCHANGED fileVars

AddNetted ==
    /\ stage = "input"
    /\ AlreadyRun(raw)
    /\ Len(raw.rows) < MaxRows
    /\ \E u \in 0..MaxTuid, en \in 0..MaxCount, ne \in NetVals :
          raw' = [raw EXCEPT !.rows = Append(@,
                    [index |-> Len(@), tuid |-> u, entries |-> en, exits |-> 1,
                     net_entries |-> ne, net_exits |-> 0, traffic |-> ne])]
    /\ df' = raw'
    /\ UNCHANGED <<prev, stage, args, out, err>>
    /\ UNCHANGED fileVars

CallCalcNets ==
    /\ stage = "input"
    /\ prev' = df
    /\ df' = CalcNets(df)
    /\ stage' = "nets"
    /\ UNCHANGED <<raw, args, out, err>>
    /\ UNCHANGED fileVars

NextNets == AddReading \/ AddNetted \/ CallCalcNets \/ DoCalcNetsAgain

SpecNets == InitNets /\ [][NextNets]_vars

-----------------------------------------------------------------------------
(* Float cells: the result of a true division *)

\* A float is [num, den] in lowest terms with den > 0, or with den = 0:
\* [0, 0] is NaN, [1, 0] is inf and [-1, 0] is -inf.  Rounding is left out:
\* a finite float is the exact quotient.
RECURSIVE Gcd(_, _)
Gcd(a, b) == IF b = 0 THEN a ELSE Gcd(b, a % b)

Abs(a) == IF a < 0 THEN -a ELSE a

Sign(a) == IF a > 0 THEN 1 ELSE IF a < 0 THEN -1 ELSE 0

FloatNaN == [num |-> 0, den |-> 0]

IsFloatNaN(x) == x.den = 0 /\ x.num = 0

\* A division that yields NaN for every zero divisor.
FDivNaNOnZero(a, b) ==
    IF b = 0 THEN FloatNaN
    ELSE LET g == Gcd(Abs(a), Abs(b))
         IN  [num |-> Sign(b) * (a \div g), den |-> Abs(b) \div g]

\* a / b on numpy integers: no exception; x/0 is inf or -inf, 0/0 is NaN.
FDiv(a, b) ==
    IF b = 0 THEN [num |-> Sign(a), den |-> 0]
    ELSE LET g == Gcd(Abs(a), Abs(b))
         IN  [num |-> Sign(b) * (a \div g), den |-> Abs(b) \div g]

\* x + y on floats: inf - inf is NaN, NaN propagates.
FAdd(x, y) ==
    IF IsFloatNaN(x) \/ IsFloatNaN(y) THEN FloatNaN
    ELSE IF x.den = 0 /\ y.den = 0 THEN (IF x.num = y.num THEN x ELSE FloatNaN)
    ELSE IF x.den = 0 THEN x
    ELSE IF y.den = 0 THEN y
    ELSE FDiv(x.num * y.den + y.num * x.den, x.den * y.den)

\* The groupby sum of a float column: NaN cells are skipped.
RECURSIVE FloatSum(_, _, _)
FloatSum(rows, group, col) ==
    IF group = {} THEN FDiv(0, 1)
    ELSE LET i == CHOOSE i \in group : TRUE
             rest == FloatSum(rows, group \ {i}, col)
         IN  IF IsFloatNaN(rows[i][col]) THEN rest ELSE FAdd(rows[i][col], rest)

-----------------------------------------------------------------------------
(* agg_by *)

\* A datetime is a number of four-hour periods since a Monday, 00:00.
PeriodsPerDay == 6

\* df['datetime'].dt.date, .dt.time and .dt.dayofweek (Monday is 0)
DateOf(dt) == dt \div PeriodsPerDay

TimeOf(dt) == dt % PeriodsPerDay

DayOfWeek(dt) == DateOf(dt) % 7

DayNames == <<"Monday", "Tuesday", "Wednesday", "Thursday", "Friday", "Saturday", "Sunday">>

\* .dt.day_name()
DayName(dt) == DayNames[DayOfWeek(dt) + 1]

\* 'weekend' if x >= 5 else 'week'
WeekEnd(dt) == IF DayOfWeek(dt) >= 5 THEN "weekend" ELSE "week"

\* The value of a grouping key on a row: a column of the frame, or one of
\* the series agg_by derives from the datetime column.
KeyValue(r, key) ==
    IF key \in DOMAIN r THEN r[key]
    ELSE CASE key = "date" -> DateOf(r.datetime)
           [] key = "time" -> TimeOf(r.datetime)
           [] key = "day" -> DayName(r.datetime)
           [] key = "week/end" -> WeekEnd(r.datetime)

\* groupby sorts the groups by their keys; strings sort alphabetically.
SortedStrings == <<"Friday", "Monday", "Saturday", "Sunday", "Thursday", "Tuesday",
                   "Wednesday", "week", "weekend">>

KeyRank(key, v) ==
    IF key \in {"day", "week/end"}
    THEN CHOOSE p \in 1..Len(SortedStrings) : SortedStrings[p] = v
    ELSE IF key = "tde" THEN Val(v)
    ELSE v

\* The sum of a column over a group of rows.
RECURSIVE ColSum(_, _, _)
ColSum(rows, group, col) ==
    IF group = {} THEN 0
    ELSE LET i == CHOOSE i \in group : TRUE
         IN  rows[i][col] + ColSum(rows, group \ {i}, col)

\* A group's aggregate that keeps the first row's value and adds nothing up.
GroupFirst(rows, group, col) ==
    rows[CHOOSE i \in group : \A j \in group : i <= j][col]

\* .sum() of a column over a group
GroupAgg(rows, group, col) ==
    IF col = "pct_de" THEN FloatSum(rows, group, col) ELSE ColSum(rows, group, col)

\* df.groupby(keys)[cols].sum().reset_index(): one row per distinct key
\* tuple, in key order, with the keys and the sums as columns.
GroupBySum(rows, keys, cols) ==
    LET keyed == [i \in 1..Len(rows) |-> [k \in 1..Len(keys) |-> KeyValue(rows[i], keys[k])]]
        tuples == Range(keyed)
        rank == [t \in tuples |-> [k \in 1..Len(keys) |-> KeyRank(keys[k], t[k])]]
        sorted == [p \in 1..Cardinality(tuples) |->
                     CHOOSE t \in tuples :
                        Cardinality({u \in tuples : LexLess(rank[u], rank[t])}) = p - 1]
        KeyIndex(c) == CHOOSE k \in 1..Len(keys) : keys[k] = c
    IN  [p \in 1..Len(sorted) |->
            LET members == {i \in 1..Len(rows) : keyed[i] = sorted[p]}
            IN  [c \in {"index"} \cup Range(keys) \cup cols |->
                    IF c = "index" THEN p - 1
                    ELSE IF c \in cols THEN GroupAgg(rows, members, c)
                    ELSE sorted[p][KeyIndex(c)]]]

\* The keys agg_by builds from its arguments.
SpatialKey(a) ==
    IF "booth" \in a THEN "buid" ELSE IF "station" \in a THEN "suid" ELSE "tuid"

AggKeys(a) ==
    LET aggs0 == <<"datetime", SpatialKey(a)>>
        aggs1 == IF "date" \in a THEN <<SpatialKey(a), "date">>
                 ELSE IF "time" \in a THEN <<SpatialKey(a), "time">>
                 ELSE aggs0
    IN  IF "day" \in a THEN <<"day">> \o aggs1
        ELSE IF "week/end" \in a THEN <<"week/end">> \o aggs1
        ELSE aggs1

\* A check of the last two keys alone.
EndsWithDefaults(aggs) == Len(aggs) >= 2 /\ SubSeq(aggs, Len(aggs) - 1, Len(aggs)) = <<"datetime", "tuid">>

\* Raise error if none of the args given were recognized
NoneRecognized(aggs) == aggs = <<"datetime", "tuid">>

AggRaises(a) == NoneRecognized(AggKeys(a))

AggBy(frame, a) ==
    [columns |-> Range(AggKeys(a)) \cup {"net_entries", "net_exits"},
     rows |-> GroupBySum(frame.rows, AggKeys(a), {"net_entries", "net_exits"})]

-----------------------------------------------------------------------------
(* agg_by on a cleaned table *)

\* Rows of the cleaned tables handed to agg_by with any arguments.
MaxAggRows == 2
\* The columns of run()'s result that agg_by and the metrics read.
CleanedColumns == {"datetime", "tuid", "suid", "buid", "ts_count",
                   "net_entries", "net_exits", "traffic"}

\* Turnstiles of the cleaned tables, <<tuid, buid, suid, ts_count>>: two
\* booths of one station and a booth of another.
Stiles == {<<0, 0, 0, 2>>, <<1, 1, 0, 2>>, <<2, 2, 1, 1>>}

\* Monday 00:00 and 04:00, the Saturday after, and the Monday after that.
AggTimes == {0, 1, 5 * PeriodsPerDay, 7 * PeriodsPerDay}

\* <<net_entries, net_exits>> of a cleaned row.
NetPairs == {<<0, 0>>, <<1, 2>>, <<2, 0>>}

\* The arguments agg_by recognizes, and one it does not.
Recognized == {"date", "time", "day", "week/end", "station", "booth"}

ArgNames == Recognized \cup {"stations"}

CleanedRow(i, st, dt, ne, nx) ==
    [index |-> i, tuid |-> st[1], buid |-> st[2], suid |-> st[3], ts_count |-> st[4],
     datetime |-> dt, net_entries |-> ne, net_exits |-> nx, traffic |-> ne + nx]

EmptyCleaned == [columns |-> CleanedColumns, rows |-> <<>>]

\* Nothing returned yet.
NoFrame == [columns |-> {}, rows |-> <<>>]

InitAgg ==
    /\ NoFiles
    /\ raw = EmptyCleaned
    /\ df = EmptyCleaned
    /\ prev = EmptyCleaned
    /\ stage = "cleaned"
    /\ args = {}
    /\ out = NoFrame
    /\ err = FALSE

\* The table run() returns is in the order clean sorted it in, by suid, tuid
\* and datetime: calc_nets only removes rows.
AddCleaned(max) ==
    /\ stage = "cleaned"
    /\ Len(df.rows) < max
    /\ \E st \in Stiles, dt \in AggTimes, n \in NetPairs :
          LET r == CleanedRow(Len(df.rows), st, dt, n[1], n[2])
          IN  /\ df.rows # <<>> => ~LexLess(SortKey(r), SortKey(df.rows[Len(df.rows)]))
              /\ df' = [df EXCEPT !.rows = Append(@, r)]
    /\ UNCHANGED <<raw, prev, stage, args, out, err>>
    /\ UNCHANGED fileVars

AddAggRow == AddCleaned(MaxAggRows)

\* agg_by(df, *args): the result, or ValueError.
DoAggBy ==
    /\ stage = "cleaned"
    /\ \E a \in SUBSET ArgNames :
          /\ args' = a
          /\ IF AggRaises(a)
             THEN err' = TRUE /\ out' = out
             ELSE err' = FALSE /\ out' = AggBy(df, a)
    /\ stage' = "agg"
    /\ UNCHANGED <<raw, df, prev>>
    /\ UNCHANGED fileVars

NextAgg == AddAggRow \/ DoAggBy

SpecAgg == InitAgg /\ [][NextAgg]_vars

-----------------------------------------------------------------------------
(* get_metrics: total_daily_entries, pct_daily_entries, density *)

\* .rename(columns={old: new}) on every row
Rename(rows, old, new) ==
    [i \in 1..Len(rows) |->
        [c \in (DOMAIN rows[i] \ {old}) \cup {new} |->
            IF c = new THEN rows[i][old] ELSE rows[i][c]]]

\* agg_by date and station, then the sum over the stations of each date.
TdeTable(frame) ==
    LET df_tde == AggBy(frame, {"date", "station"})
    IN  [columns |-> {"date", "tde"},
         rows |-> Rename(GroupBySum(df_tde.rows, <<"date">>, {"net_entries"}),
                         "net_entries", "tde")]

\* A lookup that ignores the row's date.
TdeLookupFirst(tde, r) == IF tde.rows = <<>> THEN NaN ELSE <<tde.rows[1].tde>>

\* df['temp_date'].map(tde_dict): the total of the row's date, NaN for a
\* date that is no key of the dict.
TdeLookup(tde, r) ==
    LET hit == {i \in 1..Len(tde.rows) : tde.rows[i].date = DateOf(r.datetime)}
    IN  IF hit = {} THEN NaN ELSE <<tde.rows[CHOOSE i \in hit : TRUE].tde>>

TotalDailyEntries(frame, add_col) ==
    LET tde == TdeTable(frame)
    IN  IF add_col
        THEN [columns |-> frame.columns \cup {"tde"},
              rows |-> [i \in 1..Len(frame.rows) |->
                          SetCol(frame.rows[i], "tde", TdeLookup(tde, frame.rows[i]))]]
        ELSE tde

PctDailyEntries(frame) ==
    LET temp_df == TotalDailyEntries(frame, TRUE).rows
        pct == [i \in 1..Len(temp_df) |->
                  SetCol(temp_df[i], "pct_de",
                         IF IsNaN(temp_df[i].tde) THEN FloatNaN
                         ELSE FDiv(temp_df[i].net_entries, Val(temp_df[i].tde)))]
        \* groupby leaves out the rows with a missing key
        keyed == SelectSeq(pct, LAMBDA r : ~IsNaN(r.tde))
    IN  [columns |-> {"suid", "date", "tde", "net_entries", "pct_de"},
         rows |-> Rename(GroupBySum(keyed, <<"suid", "datetime", "tde">>,
                                    {"net_entries", "pct_de"}),
                         "datetime", "date")]

Density(frame, add_col) ==
    LET Dens(r) == FDiv(r.traffic, r.ts_count)
    IN  IF add_col
        THEN [columns |-> frame.columns \cup {"density"},
              rows |-> [i \in 1..Len(frame.rows) |->
                          SetCol(frame.rows[i], "density", Dens(frame.rows[i]))]]
        ELSE [columns |-> {"datetime", "suid", "traffic", "ts_count", "density"},
              rows |-> [i \in 1..Len(frame.rows) |->
                          [c \in {"index", "datetime", "suid", "traffic", "ts_count", "density"} |->
                              IF c = "density" THEN Dens(frame.rows[i])
                              ELSE frame.rows[i][c]]]]

-----------------------------------------------------------------------------
(* The metrics on a cleaned table *)

AddMetricsRow == AddCleaned(MaxRows)

\* wrangle_data_ex.py: agg_by(df, 'date') and agg_by(df, 'date', 'station')
DoAggExamples ==
    /\ stage = "cleaned"
    /\ out' = AggBy(df, {"date"})
    /\ prev' = AggBy(df, {"date", "station"})
    /\ stage' = "examples"
    /\ UNCHANGED <<raw, df, args, err>>
    /\ UNCHANGED fileVars

DoTotalDailyEntries ==
    /\ stage = "cleaned"
    /\ \E add_col \in BOOLEAN :
          /\ out' = TotalDailyEntries(df, add_col)
          /\ stage' = IF add_col THEN "tde_col" ELSE "tde"
    /\ UNCHANGED <<raw, df, prev, args, err>>
    /\ UNCHANGED fileVars

DoPctDailyEntries ==
    /\ stage = "cleaned"
    /\ out' = PctDailyEntries(df)
    /\ stage' = "pct"
    /\ UNCHANGED <<raw, df, prev, args, err>>
    /\ UNCHANGED fileVars

NextMetrics == AddMetricsRow \/ DoAggExamples \/ DoTotalDailyEntries \/ DoPctDailyEntries

SpecMetrics == InitAgg /\ [][NextMetrics]_vars

-----------------------------------------------------------------------------
(* density on any table with traffic and ts_count, a ts_count of 0 included *)

\* traffic of the rows handed to density is 0..MaxTraffic.
MaxTraffic == 2
\* ts_count of the rows handed to density is 0..MaxTsCount; clean itself
\* never yields 0.
MaxTsCount == 2

DensityColumns == {"datetime", "suid", "traffic", "ts_count"}

InitDensity ==
    /\ NoFiles
    /\ raw = [columns |-> DensityColumns, rows |-> <<>>]
    /\ df = raw
    /\ prev = raw
    /\ stage = "cleaned"
    /\ args = {}
    /\ out = raw
    /\ err = FALSE

AddDensityRow ==
    /\ stage = "cleaned"
    /\ Len(df.rows) < MaxRows
    /\ \E tr \in 0..MaxTraffic, ts \in 0..MaxTsCount :
          df' = [df EXCEPT !.rows = Append(@,
                    [index |-> Len(@), datetime |-> Len(@), suid |-> 0,
                     traffic |-> tr, ts_count |-> ts])]
    /\ UNCHANGED <<raw, prev, stage, args, out, err>>
    /\ UNCHANGED fileVars

DoDensity ==
    /\ stage = "cleaned"
    /\ \E add_col \in BOOLEAN :
          /\ out' = Density(df, add_col)
          /\ stage' = IF add_col THEN "density_col" ELSE "density"
    /\ UNCHANGED <<raw, df, prev, args, err>>
    /\ UNCHANGED fileVars

NextDensity == AddDensityRow \/ DoDensity

SpecDensity == InitDensity /\ [][NextDensity]_vars

-----------------------------------------------------------------------------
(* datetime.date and date strings, as the file functions use them *)

\* The first day of the window of dates of the model is
\* date.fromordinal(FirstDay) = 2019-12-19, a Thursday; the window has
\* MaxDay further days and crosses the turn of the year.
FirstDay == 737412
MaxDay == 30

Days == FirstDay..(FirstDay + MaxDay)

\* Years that FromOrdinal searches.
Years == 2016..2021

DigitChars == <<"0", "1", "2", "3", "4", "5", "6", "7", "8", "9">>

DigitValue(c) == CHOOSE k \in 0..9 : DigitChars[k + 1] = c

\* '%0wd' % n
RECURSIVE Digits(_, _)
Digits(n, w) ==
    IF w = 0 THEN <<>> ELSE Digits(n \div 10, w - 1) \o <<DigitChars[(n % 10) + 1]>>

\* int(s) of a string of decimal digits
RECURSIVE ParseInt(_)
ParseInt(s) ==
    IF s = <<>> THEN 0
    ELSE 10 * ParseInt(SubSeq(s, 1, Len(s) - 1)) + DigitValue(s[Len(s)])

\* The Python slice s[a:b]
Slice(s, a, b) == SubSeq(s, a + 1, IF b < Len(s) THEN b ELSE Len(s))

IsLeap(y) == y % 4 = 0 /\ (y % 100 # 0 \/ y % 400 = 0)

DaysInMonth(y, m) ==
    IF m = 2 THEN (IF IsLeap(y) THEN 29 ELSE 28)
    ELSE IF m \in {4, 6, 9, 11} THEN 30 ELSE 31

DaysBeforeYear(y) ==
    365 * (y - 1) + ((y - 1) \div 4) - ((y - 1) \div 100) + ((y - 1) \div 400)

RECURSIVE DaysBeforeMonth(_, _)
DaysBeforeMonth(y, m) ==
    IF m = 1 THEN 0 ELSE DaysBeforeMonth(y, m - 1) + DaysInMonth(y, m - 1)

\* date(y, m, d).toordinal(); a date object is its ordinal
ToOrdinal(y, m, d) == DaysBeforeYear(y) + DaysBeforeMonth(y, m) + d

\* date.weekday(): Monday is 0, Saturday is 5
Weekday(n) == (n + 6) % 7

\* The year, month and day of a date object
FromOrdinal(n) ==
    LET y == CHOOSE yy \in Years : DaysBeforeYear(yy) < n /\ n <= DaysBeforeYear(yy + 1)
        m == CHOOSE mm \in 1..12 :
                /\ DaysBeforeMonth(y, mm) < n - DaysBeforeYear(y)
                /\ n - DaysBeforeYear(y) <= DaysBeforeMonth(y, mm) + DaysInMonth(y, mm)
    IN  [year |-> y, month |-> m, day |-> n - DaysBeforeYear(y) - DaysBeforeMonth(y, m)]

\* date.strftime('%Y-%m-%d')
Strftime(n) ==
    LET dt == FromOrdinal(n)
    IN  Digits(dt.year, 4) \o <<"-">> \o Digits(dt.month, 2) \o <<"-">> \o Digits(dt.day, 2)

\* The same date written yymmdd, the other format read_file and
\* get_saturdays_between accept.
Yymmdd(n) ==
    LET dt == FromOrdinal(n)
    IN  Digits(dt.year % 100, 2) \o Digits(dt.month, 2) \o Digits(dt.day, 2)

-----------------------------------------------------------------------------
(* read_file and read_files *)

\* Length of the list of dates given to read_files and get_data.
MaxDates == 3

\* 'turnstile_{}.txt'.format(dname)
FileNameOf(dname) == <<"turnstile_">> \o dname \o <<".txt">>

\* A mistaken slicing of the date: the dashes are not skipped.
DNameDashes(dt) == IF Len(dt) = 6 THEN dt ELSE Slice(dt, 2, 8)

DName(dt) ==
    IF Len(dt) = 6 THEN dt ELSE Slice(dt, 2, 4) \o Slice(dt, 5, 7) \o Slice(dt, 8, 10)

\* What a file of ./mta_data can hold: a turnstile table, or bytes that are
\* no table with DATE and TIME columns (the page of a failed download).
TableA == <<RawRow(0, << <<"A">>, <<"B", "C">>, <<"0">>, <<"S">>, <<"L">> >>, 1, 0, 0)>>

TableB == <<RawRow(0, << <<"A">>, <<"B", "C">>, <<"0">>, <<"S">>, <<"L">> >>, 2, 1, 0),
            RawRow(1, << <<"A">>, <<"B", "C">>, <<"1">>, <<"S">>, <<"L">> >>, 2, 0, 1)>>

Contents == {[kind |-> "csv", rows |-> TableA], [kind |-> "csv", rows |-> TableB],
             [kind |-> "page", rows |-> <<>>]}

\* The Saturdays whose weekly files the model keeps: 2019-12-21,
\* 2019-12-28 and 2020-01-04.
FileDays == {FirstDay + 2, FirstDay + 9, FirstDay + 16}

FileNames == {FileNameOf(Yymmdd(n)) : n \in FileDays}

\* The directory does not exist, or it holds some of the files.
Caches ==
    {[isdir |-> FALSE, files |-> <<>>]} \cup
    {[isdir |-> TRUE, files |-> f] : f \in UNION {[S -> Contents] : S \in SUBSET FileNames}}

\* pd.DataFrame()
EmptyFrame == [columns |-> {}, rows |-> <<>>]

IsFile(c, name) == c.isdir /\ name \in DOMAIN c.files

\* pd.read_csv(..., parse_dates=[['DATE', 'TIME']]) raises when there is no
\* such file and when the file has no such columns.
ReadCsvRaises(c, name) == ~IsFile(c, name) \/ c.files[name].kind # "csv"

\* read_file: every exception is swallowed and the empty frame returned.
ReadFile(dt, c) ==
    LET name == FileNameOf(DName(dt))
    IN  IF ReadCsvRaises(c, name) THEN EmptyFrame
        ELSE [columns |-> RawColumns, rows |-> c.files[name].rows]

\* pd.concat([a, b], ignore_index=True)
ConcatFrames(a, b) ==
    [columns |-> a.columns \cup b.columns,
     rows |-> [i \in 1..(Len(a.rows) + Len(b.rows)) |->
                 [(IF i <= Len(a.rows) THEN a.rows[i] ELSE b.rows[i - Len(a.rows)])
                     EXCEPT !.index = i - 1]]]

\* The dates a caller can name: the Saturdays in yyyy-mm-dd format and
\* one of them in yymmdd format, which read_files refuses.
ReadDates == {Strftime(n) : n \in FileDays} \cup {Yymmdd(FirstDay + 16)}

DateLists(strings) == UNION {[1..n -> strings] : n \in 0..MaxDates}

InitRead ==
    /\ raw = EmptyRaw
    /\ df = EmptyFrame
    /\ prev = EmptyRaw
    /\ stage = "read_files"
    /\ args = {}
    /\ out = EmptyRaw
    /\ err = FALSE
    /\ cache \in Caches
    /\ fetched = <<>>
    /\ dates \in DateLists(ReadDates)
    /\ pos = 0
    /\ curr = 0
    /\ end = 0
    /\ cutoff = 0

\* One turn of the loop of read_files over dts.
ReadFilesStep ==
    /\ stage = "read_files"
    /\ pos < Len(dates)
    /\ IF Len(dates[pos + 1]) # 10
       THEN /\ err' = TRUE
            /\ stage' = "raised"
            /\ UNCHANGED <<df, pos>>
       ELSE /\ df' = ConcatFrames(df, ReadFile(dates[pos + 1], cache))
            /\ pos' = pos + 1
            /\ UNCHANGED <<stage, err>>
    /\ UNCHANGED <<raw, prev, args, out, cache, fetched, dates, curr, end, cutoff>>

ReadFilesReturn ==
    /\ stage = "read_files"
    /\ pos = Len(dates)
    /\ out' = df
    /\ stage' = "read_done"
    /\ UNCHANGED <<raw, df, prev, args, err>>
    /\ UNCHANGED fileVars

NextRead == ReadFilesStep \/ ReadFilesReturn

SpecRead == InitRead /\ [][NextRead]_vars

-----------------------------------------------------------------------------
(* get_saturdays_between *)

\* The arguments start and end: a string in yyyy-mm-dd or yymmdd format,
\* or a date object.
DateArgs ==
    {[type |-> "str", value |-> Strftime(n)] : n \in Days} \cup
    {[type |-> "str", value |-> Yymmdd(n)] : n \in Days} \cup
    {[type |-> "date", value |-> n] : n \in Days}

\* chunk_date followed by date(y, m, d)
ChunkDate(dt) ==
    IF dt.type = "str"
    THEN IF Len(dt.value) = 6
         THEN ToOrdinal(ParseInt(<<"2", "0">> \o Slice(dt.value, 0, 2)),
                        ParseInt(Slice(dt.value, 2, 4)), ParseInt(Slice(dt.value, 4, 6)))
         ELSE ToOrdinal(ParseInt(Slice(dt.value, 0, 4)),
                        ParseInt(Slice(dt.value, 5, 7)), ParseInt(Slice(dt.value, 8, 10)))
    ELSE ToOrdinal(FromOrdinal(dt.value).year, FromOrdinal(dt.value).month,
                   FromOrdinal(dt.value).day)

\* chunk_date and date() of every argument, and strftime of every day of
\* the window, computed once.
Chunked == [a \in DateArgs |-> ChunkDate(a)]

Formatted == [n \in Days |-> Strftime(n)]

\* s_offset: days from start to the first Saturday not before it
SOffset(start) == (12 - Weekday(start)) % 7

\* e_offset: days from the last Saturday not after end to end
EOffset(e) == (Weekday(e) + 2) % 7

\* A loop that stops one week early.
BeforeEnd(c, e) == c < e

\* while curr <= end
UpToEnd(c, e) == c <= e

InitSat ==
    /\ raw = EmptyRaw
    /\ df = EmptyRaw
    /\ prev = EmptyRaw
    /\ stage = "sat_between"
    /\ args \in [start : DateArgs, end : DateArgs]
    /\ out = <<>>
    /\ err = FALSE
    /\ NoFiles

\* Lines 207-231: parse both dates, move start forward and end backward to
\* a Saturday.
SatBetweenEnter ==
    /\ stage = "sat_between"
    /\ dates' = <<>>
    /\ curr' = Chunked[args.start] + SOffset(Chunked[args.start])
    /\ end' = Chunked[args.end] - EOffset(Chunked[args.end])
    /\ stage' = "sat_loop"
    /\ UNCHANGED <<raw, df, prev, args, out, err, cache, fetched, pos, cutoff>>

\* One turn of the while loop.
SatBetweenLoop ==
    /\ stage = "sat_loop"
    /\ UpToEnd(curr, end)
    /\ dates' = Append(dates, Formatted[curr])
    /\ curr' = curr + 7
    /\ UNCHANGED <<raw, df, prev, stage, args, out, err, cache, fetched, pos, end, cutoff>>

SatBetweenReturn ==
    /\ stage = "sat_loop"
    /\ ~UpToEnd(curr, end)
    /\ out' = dates
    /\ stage' = "sat_done"
    /\ UNCHANGED <<raw, df, prev, args, err>>
    /\ UNCHANGED fileVars

NextSat == SatBetweenEnter \/ SatBetweenLoop \/ SatBetweenReturn

SpecSat == InitSat /\ [][NextSat]_vars

\* The function runs to its end once called.
FairSpecSat == SpecSat /\ WF_vars(NextSat)

-----------------------------------------------------------------------------
(* get_data *)

\* 'turnstile_{}{}{}.txt'.format(x[2:4], x[5:7], x[8:10])
FileNameFor(x) ==
    <<"turnstile_">> \o Slice(x, 2, 4) \o Slice(x, 5, 7) \o Slice(x, 8, 10) \o <<".txt">>

\* A check that looks for the file outside ./mta_data and never finds it.
PresentNowhere(c, f) == FALSE

\* os.path.isfile('./mta_data/{}'.format(f))
Present(c, f) == c.isdir /\ f \in DOMAIN c.files

\* open(..., 'wb') and write(r.content)
WriteFile(c, f, content) ==
    [c EXCEPT !.files = [n \in DOMAIN c.files \cup {f} |->
                            IF n = f THEN content ELSE c.files[n]]]

\* The dates given to get_data: Saturdays in yyyy-mm-dd format.
GetDates == {Strftime(n) : n \in FileDays}

\* get_data is about to be called; prev keeps the directory as it is at
\* the call.
InitGet ==
    /\ raw = EmptyRaw
    /\ df = EmptyRaw
    /\ prev = [isdir |-> FALSE, files |-> <<>>]
    /\ stage = "get_data"
    /\ args = {}
    /\ out = EmptyRaw
    /\ err = FALSE
    /\ cache \in Caches
    /\ fetched = <<>>
    /\ dates \in DateLists(GetDates)
    /\ pos = 0
    /\ curr = 0
    /\ end = 0
    /\ cutoff = 0

\* Lines 50-54: make the directory when it is missing.
GetDataEnter ==
    /\ stage = "get_data"
    /\ prev' = cache
    /\ cache' = IF cache.isdir THEN cache ELSE [isdir |-> TRUE, files |-> <<>>]
    /\ stage' = "get_loop"
    /\ UNCHANGED <<raw, df, args, out, err, fetched, dates, pos, curr, end, cutoff>>

InLoop == stage \in {"get_loop", "get_loop_again"}

\* Lines 57-58: the file is there, continue.
GetDataSkip ==
    /\ InLoop
    /\ pos < Len(dates)
    /\ Present(cache, FileNameFor(dates[pos + 1]))
    /\ pos' = pos + 1
    /\ UNCHANGED <<raw, df, prev, stage, args, out, err, cache, fetched, dates, curr, end, cutoff>>

\* Lines 59-64: request the file and write whatever body the server sent.
GetDataFetch ==
    /\ InLoop
    /\ pos < Len(dates)
    /\ ~Present(cache, FileNameFor(dates[pos + 1]))
    /\ fetched' = Append(fetched, FileNameFor(dates[pos + 1]))
    /\ \E content \in Contents :
          cache' = WriteFile(cache, FileNameFor(dates[pos + 1]), content)
    /\ pos' = pos + 1
    /\ UNCHANGED <<raw, df, prev, stage, args, out, err, dates, curr, end, cutoff>>

\* Line 62: requests.get raises (no connection); get_data ends there.
GetDataFetchRaises ==
    /\ InLoop
    /\ pos < Len(dates)
    /\ ~Present(cache, FileNameFor(dates[pos + 1]))
    /\ fetched' = Append(fetched, FileNameFor(dates[pos + 1]))
    /\ err' = TRUE
    /\ stage' = "get_failed"
    /\ UNCHANGED <<raw, df, prev, args, out, cache, dates, pos, curr, end, cutoff>>

GetDataReturn ==
    /\ InLoop
    /\ pos = Len(dates)
    /\ stage' = IF stage = "get_loop" THEN "got" ELSE "got_again"
    /\ UNCHANGED <<raw, df, prev, args, out, err>>
    /\ UNCHANGED fileVars

\* get_data is called a second time with the same list.
GetDataAgain ==
    /\ stage = "got"
    /\ pos' = 0
    /\ stage' = "get_loop_again"
    /\ UNCHANGED <<raw, df, prev, args, out, err, cache, fetched, dates, curr, end, cutoff>>

NextGet ==
    \/ GetDataEnter
    \/ GetDataSkip
    \/ GetDataFetch
    \/ GetDataFetchRaises
    \/ GetDataReturn
    \/ GetDataAgain

SpecGet == InitGet /\ [][NextGet]_vars

-----------------------------------------------------------------------------
(* get_data.py: main, get_most_recent_saturday, _get_saturdays_after *)

\* first_date when no argument is given: '2017-01-01'
DefaultFirstDate == <<"2", "0", "1", "7", "-", "0", "1", "-", "0", "1">>

\* The command lines: no argument, a yyyy-mm-dd date of the window, or a
\* date in yymmdd format, which main's assertion refuses.
Argvs == {<<>>} \cup {<<Strftime(n)>> : n \in Days} \cup {<<Yymmdd(FirstDay)>>}

\* datetime.strptime(dt, '%Y-%m-%d').date()
Strptime(dt) ==
    ToOrdinal(ParseInt(Slice(dt, 0, 4)), ParseInt(Slice(dt, 5, 7)), ParseInt(Slice(dt, 8, 10)))

\* get_most_recent_saturday, today being the date given
MostRecentSaturday(today) == today - ((Weekday(today) + 2) % 7)

\* strptime of every first date and strftime of every day from the default
\* first date on, computed once.
Parsed == [s \in {DefaultFirstDate} \cup {Strftime(n) : n \in Days} |-> Strptime(s)]

FormattedSince2017 == [n \in (ToOrdinal(2017, 1, 1) - 6)..(FirstDay + MaxDay) |-> Strftime(n)]

\* while curr > cutoff
AfterCutoff(c, cut) == c > cut

InitMain ==
    /\ raw = EmptyRaw
    /\ df = EmptyRaw
    /\ prev = EmptyRaw
    /\ stage = "main"
    /\ args \in [today : Days, argv : Argvs]
    /\ out = <<>>
    /\ err = FALSE
    /\ NoFiles

\* main up to the loop of _get_saturdays_after: lines 68-71 and 39-42.
MainEnter ==
    /\ stage = "main"
    /\ LET first_date == IF Len(args.argv) = 0 THEN DefaultFirstDate ELSE args.argv[1]
       IN  IF Len(first_date) # 10
           THEN /\ err' = TRUE
                /\ stage' = "raised"
                /\ UNCHANGED <<dates, cutoff, curr>>
           ELSE /\ dates' = <<>>
                /\ cutoff' = Parsed[first_date]
                /\ curr' = MostRecentSaturday(args.today)
                /\ stage' = "after_loop"
                /\ UNCHANGED err
    /\ UNCHANGED <<raw, df, prev, args, out, cache, fetched, pos, end>>

\* One turn of the while loop.
SaturdaysAfterLoop ==
    /\ stage = "after_loop"
    /\ AfterCutoff(curr, cutoff)
    /\ dates' = Append(dates, FormattedSince2017[curr])
    /\ curr' = curr - 7
    /\ UNCHANGED <<raw, df, prev, stage, args, out, err, cache, fetched, pos, end, cutoff>>

\* Line 46: the list is returned to main, which hands it to get_data.
SaturdaysAfterReturn ==
    /\ stage = "after_loop"
    /\ ~AfterCutoff(curr, cutoff)
    /\ out' = dates
    /\ stage' = "after_done"
    /\ UNCHANGED <<raw, df, prev, args, err>>
    /\ UNCHANGED fileVars

NextMain == MainEnter \/ SaturdaysAfterLoop \/ SaturdaysAfterReturn

SpecMain == InitMain /\ [][NextMain]_vars

-----------------------------------------------------------------------------
(* Properties of calc_nets *)

HasNetColumns(frame) == {"net_entries", "net_exits"} \subseteq frame.columns

\* The reading whose counters are subtracted at position i+1 of rows: the
\* nearest earlier row of the same turnstile id.
HasPred(rows, i) ==
    i < Len(rows) /\ \E j \in 1..i : rows[j].tuid = rows[i+1].tuid

PredOf(rows, i) ==
    CHOOSE j \in 1..i : /\ rows[j].tuid = rows[i+1].tuid
                        /\ \A k \in (j+1)..i : rows[k].tuid # rows[i+1].tuid

CounterDiff(rows, i, col) == rows[i+1][col] - rows[PredOf(rows, i)][col]

Retained(frame, idx) == \E k \in 1..Len(frame.rows) : frame.rows[k].index = idx

\* C1: every row calc_nets returns, when it computes the net columns, has
\* 0 <= net_entries <= 7200 and 0 <= net_exits <= 7200; a row of the input is
\* in the output exactly when both its counter differences exist and lie in
\* that range (7200 itself included), and the output row carries those
\* differences and the input row's cells unchanged.
C1_NetsWithinThreshold ==
    (stage = "nets" /\ ~HasNetColumns(prev)) =>
        /\ \A k \in 1..Len(df.rows) :
              /\ df.rows[k].net_entries >= 0 /\ df.rows[k].net_entries <= 7200
              /\ df.rows[k].net_exits >= 0 /\ df.rows[k].net_exits <= 7200
        /\ \A i \in 1..Len(prev.rows) :
              Retained(df, prev.rows[i].index) <=>
                  /\ HasPred(prev.rows, i)
                  /\ CounterDiff(prev.rows, i, "entries") \in 0..7200
                  /\ CounterDiff(prev.rows, i, "exits") \in 0..7200
        /\ \A k \in 1..Len(df.rows) :
              \E i \in 1..Len(prev.rows) :
                  /\ prev.rows[i].index = df.rows[k].index
                  /\ df.rows[k].net_entries = CounterDiff(prev.rows, i, "entries")
                  /\ df.rows[k].net_exits = CounterDiff(prev.rows, i, "exits")
                  /\ \A c \in DOMAIN prev.rows[i] : df.rows[k][c] = prev.rows[i][c]

\* A table with a difference of exactly 7200 kept and another row dropped
\* although it had both differences.
C1_Witness ==
    /\ stage = "nets" /\ ~HasNetColumns(prev)
    /\ \E k \in 1..Len(df.rows) : df.rows[k].net_entries = 7200
    /\ \E i \in 1..Len(prev.rows) :
          /\ HasPred(prev.rows, i)
          /\ CounterDiff(prev.rows, i, "entries") \notin 0..7200
          /\ ~Retained(df, prev.rows[i].index)

\* C4: calc_nets applied to a table that has both net columns, its own
\* output included, returns that table unchanged.
C4_CalcNetsIdempotent ==
    (stage = "again" \/ (stage = "nets" /\ HasNetColumns(prev))) => df = prev

\* calc_nets has run twice on a table that first lacked the net columns,
\* dropped a row the first time and kept one.
C4_Witness ==
    /\ stage = "again"
    /\ ~HasNetColumns(raw)
    /\ df.rows # <<>>
    /\ Len(df.rows) < Len(raw.rows) - 1

-----------------------------------------------------------------------------
(* Properties of clean followed by calc_nets *)

Positions(frame) == 1..Len(frame.rows)

\* The readings of turnstile id u in the cleaned table.
ReadingsOf(frame, u) == {i \in Positions(frame) : frame.rows[i].tuid = u}

\* Reading j is a chronologically next reading of reading i: another
\* reading of the same turnstile id, not earlier than i, with no reading of
\* that turnstile id strictly between the two.
IsNextReading(frame, i, j) ==
    LET rows == frame.rows
    IN  /\ j # i
        /\ rows[j].tuid = rows[i].tuid
        /\ rows[j].datetime >= rows[i].datetime
        /\ ~\E m \in ReadingsOf(frame, rows[i].tuid) :
              rows[i].datetime < rows[m].datetime /\ rows[m].datetime < rows[j].datetime

\* C2: after clean and calc_nets every retained row r has
\* net_entries = n.entries - r.entries and net_exits = n.exits - r.exits
\* for a chronologically next reading n of r's turnstile id.
C2_NetIsNextMinusCurrent ==
    stage = "nets" =>
        \A k \in Positions(df) :
            \E i, j \in Positions(prev) :
                /\ prev.rows[i].index = df.rows[k].index
                /\ IsNextReading(prev, i, j)
                /\ df.rows[k].net_entries = prev.rows[j].entries - prev.rows[i].entries
                /\ df.rows[k].net_exits = prev.rows[j].exits - prev.rows[i].exits

\* The readings of turnstile id u with the latest timestamp.
LastReadings(frame, u) ==
    {i \in ReadingsOf(frame, u) :
        \A j \in ReadingsOf(frame, u) : frame.rows[j].datetime <= frame.rows[i].datetime}

\* C3: after clean and calc_nets the chronologically last reading of every
\* turnstile id is absent, and a turnstile id with k readings has at most
\* k-1 rows (none when k = 1).
C3_LastReadingDropped ==
    stage = "nets" =>
        \A u \in {prev.rows[i].tuid : i \in Positions(prev)} :
            /\ \E i \in LastReadings(prev, u) : ~Retained(df, prev.rows[i].index)
            /\ Cardinality(ReadingsOf(df, u)) <= Cardinality(ReadingsOf(prev, u)) - 1

\* The natural keys of the three id families, as tuples of the stripped cells.
TuidTuple(r) == <<r.c_a, r.unit, r.scp, r.station>>

SuidTuple(r) == <<r.station, r.linename>>

BuidTuple(r) == <<r.c_a, r.unit, r.station, r.linename>>

\* C5: in each id family two rows have equal ids exactly when their
\* natural-key tuples are equal, and there are as many ids as tuples.
C5_ResolverDeterminism ==
    stage = "clean" =>
        LET rows == df.rows
            P == Positions(df)
        IN  /\ \A i, j \in P :
                  /\ (rows[i].tuid = rows[j].tuid) <=> (TuidTuple(rows[i]) = TuidTuple(rows[j]))
                  /\ (rows[i].suid = rows[j].suid) <=> (SuidTuple(rows[i]) = SuidTuple(rows[j]))
                  /\ (rows[i].buid = rows[j].buid) <=> (BuidTuple(rows[i]) = BuidTuple(rows[j]))
            /\ Cardinality({rows[i].tuid : i \in P}) = Cardinality({TuidTuple(rows[i]) : i \in P})
            /\ Cardinality({rows[i].suid : i \in P}) = Cardinality({SuidTuple(rows[i]) : i \in P})
            /\ Cardinality({rows[i].buid : i \in P}) = Cardinality({BuidTuple(rows[i]) : i \in P})

-----------------------------------------------------------------------------
(* Properties of agg_by *)

\* C6: agg_by raises ValueError exactly when none of its arguments is one
\* of 'date', 'time', 'day', 'week/end', 'booth', 'station'; otherwise it
\* returns a table with the two sums as columns.
C6_RaisesIffNoneRecognized ==
    stage = "agg" =>
        /\ err <=> (args \cap {"date", "time", "day", "week/end", "booth", "station"} = {})
        /\ ~err => /\ {"net_entries", "net_exits"} \subseteq out.columns
                   /\ (df.rows # <<>>) => (out.rows # <<>>)

\* agg_by has raised on arguments none of which it recognizes, and some
\* call with 'day' alone has been accepted.
C6_Witness ==
    /\ stage = "agg"
    /\ \/ err /\ args = {"stations"} /\ df.rows # <<>>
       \/ ~err /\ args = {"day"} /\ Len(out.rows) = 2

\* The grains a call asks for: the spatial one (default the turnstile id)
\* and the temporal ones (default the raw timestamp).
RequestedSpatial(a) ==
    IF "booth" \in a THEN "buid" ELSE IF "station" \in a THEN "suid" ELSE "tuid"

RequestedTemporal(a) ==
    LET clock == IF "date" \in a THEN <<"date">>
                 ELSE IF "time" \in a THEN <<"time">> ELSE <<>>
        day == IF "day" \in a THEN <<"day">>
               ELSE IF "week/end" \in a THEN <<"week/end">> ELSE <<>>
    IN  IF day \o clock = <<>> THEN <<"datetime">> ELSE day \o clock

RequestedKeys(a) == RequestedTemporal(a) \o <<RequestedSpatial(a)>>

GrainValue(r, keys) == [k \in 1..Len(keys) |-> KeyValue(r, keys[k])]

\* C7: an accepted agg_by call returns exactly one row per distinct
\* combination of the requested temporal and spatial grain values in df,
\* holding the sums of net_entries and net_exits over the rows of df with
\* that combination; the grand totals of the output equal those of df.
C7_OneRowPerGrainCombination ==
    (stage = "agg" /\ ~err) =>
        LET keys == RequestedKeys(args)
            In == Positions(df)
            Out == Positions(out)
            combos == {GrainValue(df.rows[i], keys) : i \in In}
        IN  /\ Len(out.rows) = Cardinality(combos)
            /\ \A t \in combos :
                  \E k \in Out :
                      /\ GrainValue(out.rows[k], keys) = t
                      /\ \A c \in {"net_entries", "net_exits"} :
                            out.rows[k][c] =
                                ColSum(df.rows, {i \in In : GrainValue(df.rows[i], keys) = t}, c)
            /\ \A c \in {"net_entries", "net_exits"} :
                  ColSum(out.rows, Out, c) = ColSum(df.rows, In, c)

\* The rows of a table that fall on date d.
OnDate(frame, d) == {i \in Positions(frame) : KeyValue(frame.rows[i], "date") = d}

DatesOf(frame) == {KeyValue(frame.rows[i], "date") : i \in Positions(frame)}

\* C8: for every date the net_entries and net_exits that agg_by by date and
\* station reports, summed over the stations, equal the totals that agg_by by
\* date reports for that date, and both equal the totals of df's rows.
C8_SumConservation ==
    stage = "examples" =>
        /\ DatesOf(prev) = DatesOf(df) /\ DatesOf(out) = DatesOf(df)
        /\ \A d \in DatesOf(df), c \in {"net_entries", "net_exits"} :
              /\ ColSum(prev.rows, OnDate(prev, d), c) = ColSum(out.rows, OnDate(out, d), c)
              /\ ColSum(out.rows, OnDate(out, d), c) = ColSum(df.rows, OnDate(df, d), c)

\* Two stations and two dates, one station with two turnstiles on one date:
\* the station rows are fewer than the turnstile rows.
C8_Witness ==
    /\ stage = "examples"
    /\ Cardinality({df.rows[i].suid : i \in Positions(df)}) >= 2
    /\ Cardinality(DatesOf(df)) >= 2
    /\ Len(prev.rows) < Len(out.rows)
    /\ \E d \in DatesOf(df) : ColSum(df.rows, OnDate(df, d), "net_entries") >= 3

\* The rows of pct_daily_entries' result whose timestamp falls on date d.
PctOnDate(frame, d) == {i \in Positions(frame) : DateOf(frame.rows[i].date) = d}

\* C9: total_daily_entries gives every row the sum of net_entries over all
\* rows of its date, and for every date with a nonzero total the pct_de of
\* pct_daily_entries sum to 1 over the rows of that date.
C9_ShareNormalization ==
    /\ stage = "tde_col" =>
          /\ Len(out.rows) = Len(df.rows)
          /\ \A i \in Positions(df) :
                /\ out.rows[i].tde =
                      <<ColSum(df.rows, OnDate(df, DateOf(df.rows[i].datetime)), "net_entries")>>
                /\ \A c \in DOMAIN df.rows[i] : out.rows[i][c] = df.rows[i][c]
    /\ stage = "pct" =>
          \A d \in DatesOf(df) :
              ColSum(df.rows, OnDate(df, d), "net_entries") # 0 =>
                  /\ FloatSum(out.rows, PctOnDate(out, d), "pct_de") = [num |-> 1, den |-> 1]
                  /\ \A k \in PctOnDate(out, d) :
                        out.rows[k].tde = <<ColSum(df.rows, OnDate(df, d), "net_entries")>>

\* Shares of two stations on one date, both nonzero, and a second date.
C9_Witness ==
    /\ stage = "pct"
    /\ Cardinality(DatesOf(df)) >= 2
    /\ \E k, l \in Positions(out) :
          /\ out.rows[k].suid # out.rows[l].suid
          /\ DateOf(out.rows[k].date) = DateOf(out.rows[l].date)
          /\ out.rows[k].pct_de.num > 0 /\ out.rows[l].pct_de.num > 0
          /\ out.rows[k].pct_de # out.rows[l].pct_de

DensityDone == stage \in {"density", "density_col"}

-----------------------------------------------------------------------------
(* C11: input order *)

\* The orders in which n rows can be concatenated.
RowOrders(n) == {p \in [1..n -> 1..n] : \A i, j \in 1..n : i # j => p[i] # p[j]}

\* The raw table with the same readings concatenated in the order p
\* (ignore_index renumbers the index labels).
Reordered(frame, p) ==
    [frame EXCEPT !.rows = [i \in 1..Len(frame.rows) |->
                               [frame.rows[p[i]] EXCEPT !.index = i - 1]]]

\* The cleaned readings of a frame: natural key, timestamp and nets.
CleanedReadings(frame) ==
    {<<r.c_a, r.unit, r.scp, r.station, r.datetime, r.net_entries, r.net_exits>> :
        r \in Range(frame.rows)}

\* C11: whatever the order in which the raw readings were concatenated,
\* clean followed by calc_nets yields the same set of (natural turnstile
\* key, timestamp, net_entries, net_exits) tuples.
C11_InputOrderIndependence ==
    stage = "nets" =>
        \A p \in RowOrders(Len(raw.rows)) :
            CleanedReadings(CalcNets(Clean(Reordered(raw, p)))) = CleanedReadings(df)

-----------------------------------------------------------------------------
(* C12: read_files and missing files *)

\* The weekly file of a date given as yyyy-mm-dd: turnstile_yymmdd.txt.
WeeklyFile(dt) ==
    LET y == ParseInt(SubSeq(dt, 1, 4))
        m == ParseInt(SubSeq(dt, 6, 7))
        d == ParseInt(SubSeq(dt, 9, 10))
    IN  <<"turnstile_">> \o Digits(y % 100, 2) \o Digits(m, 2) \o Digits(d, 2) \o <<".txt">>

\* The rows of the weekly file of dt in the directory c: none when the file
\* is missing, and none when it holds no table.
RowsOfFile(c, dt) ==
    IF c.isdir /\ WeeklyFile(dt) \in DOMAIN c.files THEN c.files[WeeklyFile(dt)].rows ELSE <<>>

RECURSIVE RowsInListOrder(_, _)
RowsInListOrder(c, dts) ==
    IF dts = <<>> THEN <<>>
    ELSE RowsInListOrder(c, SubSeq(dts, 1, Len(dts) - 1)) \o RowsOfFile(c, dts[Len(dts)])

IsoDates(dts) == \A i \in 1..Len(dts) : Len(dts[i]) = 10

\* C12: for a list of yyyy-mm-dd dates read_files raises nothing and
\* returns the rows of the weekly files that exist, file after file in list
\* order; a missing file contributes no row, and when no file exists the
\* table is empty.  (A date in another format fails the assertion.)
C12_MissingFilesContributeNothing ==
    /\ stage = "read_done" =>
          /\ IsoDates(dates) /\ ~err
          /\ Len(out.rows) = Len(RowsInListOrder(cache, dates))
          /\ \A i \in 1..Len(out.rows) :
                /\ out.rows[i].index = i - 1
                /\ [out.rows[i] EXCEPT !.index = 0]
                      = [RowsInListOrder(cache, dates)[i] EXCEPT !.index = 0]
          /\ (\A i \in 1..Len(dates) : ~IsFile(cache, WeeklyFile(dates[i]))) => out = EmptyFrame
    /\ stage = "raised" => err /\ ~IsoDates(dates)

\* A list of three dates whose middle file is missing while the first and
\* the last hold different tables.
C12_Witness ==
    /\ stage = "read_done"
    /\ Len(dates) = 3
    /\ IsFile(cache, WeeklyFile(dates[1]))
    /\ ~IsFile(cache, WeeklyFile(dates[2]))
    /\ Len(out.rows) = 3
    /\ out.rows[1].datetime = 2 /\ out.rows[3].datetime = 1

-----------------------------------------------------------------------------
(* C13: get_saturdays_between *)

\* The day an argument denotes.
ArgsOfDay == [n \in Days |-> {Strftime(n), Yymmdd(n)}]

DayOfArg(a) ==
    IF a.type = "date" THEN a.value ELSE CHOOSE n \in Days : a.value \in ArgsOfDay[n]

SaturdaysIn(lo, hi) == {d \in lo..hi : Weekday(d) = 5}

\* The list s holds the days of the set S in ascending order, each once,
\* as yyyy-mm-dd strings.
IsAscendingListOf(s, S) ==
    /\ Len(s) = Cardinality(S)
    /\ \A d \in S : s[Cardinality({e \in S : e < d}) + 1] = Formatted[d]

\* C13: get_saturdays_between terminates, and it returns in ascending
\* order and without duplicates exactly the Saturdays d with
\* start <= d <= end; the list is empty when there is none.
C13_SaturdaysBetween ==
    /\ [](stage = "sat_done" =>
            IsAscendingListOf(out, SaturdaysIn(DayOfArg(args.start), DayOfArg(args.end))))
    /\ <>(stage = "sat_done")

\* Both endpoints are Saturdays, four weeks apart, given in different
\* formats, and all five Saturdays are returned.
C13_Witness ==
    /\ stage = "sat_done"
    /\ args.start.type = "str" /\ args.end.type = "str"
    /\ Len(args.start.value) = 6 /\ Len(args.end.value) = 10
    /\ Weekday(DayOfArg(args.start)) = 5 /\ Weekday(DayOfArg(args.end)) = 5
    /\ Len(out) = 5
    /\ out[1] = Strftime(DayOfArg(args.start)) /\ out[5] = Strftime(DayOfArg(args.end))

-----------------------------------------------------------------------------
(* C14: get_data *)

\* The weekly files the list names.
NamedFiles(dts) == {WeeklyFile(dts[i]) : i \in 1..Len(dts)}

InCache(c, n) == c.isdir /\ n \in DOMAIN c.files

\* C14: get_data requests only files of the list that are not in the
\* cache, and leaves every file that is in the cache as it is; when it
\* completes, the files it requested are exactly the files of the list that
\* were missing at the call, each requested once, and every file of the
\* list is in the cache; a second run with the same list requests nothing.
C14_FetchOnlyMissing ==
    /\ [][\A n \in DOMAIN cache.files :
             InCache(cache, n) => InCache(cache', n) /\ cache'.files[n] = cache.files[n]]_vars
    /\ [][fetched' # fetched =>
             /\ Len(fetched') = Len(fetched) + 1
             /\ SubSeq(fetched', 1, Len(fetched)) = fetched
             /\ fetched'[Len(fetched')] \in NamedFiles(dates)
             /\ ~InCache(cache, fetched'[Len(fetched')])]_vars
    /\ [](stage \in {"got", "get_loop_again", "got_again"} =>
             /\ ~err
             /\ \A n \in NamedFiles(dates) : InCache(cache, n)
             /\ Range(fetched) = {n \in NamedFiles(dates) : ~InCache(prev, n)}
             /\ Len(fetched) = Cardinality(Range(fetched))
             /\ \A n \in DOMAIN prev.files :
                   InCache(prev, n) => cache.files[n] = prev.files[n])
    /\ [][(stage \in {"got", "get_loop_again"}) => fetched' = fetched]_vars

\* A second run has completed on a list that names a missing file twice and
\* a file that was present: one request was sent.
C14_Witness ==
    /\ stage = "got_again"
    /\ Len(dates) = 3
    /\ dates[1] = dates[3]
    /\ ~InCache(prev, WeeklyFile(dates[1]))
    /\ InCache(prev, WeeklyFile(dates[2]))
    /\ fetched = <<WeeklyFile(dates[1])>>

-----------------------------------------------------------------------------
(* C15: _get_saturdays_after *)

\* The earliest date main was given.
EarliestDay ==
    IF Len(args.argv) = 0 THEN ToOrdinal(2017, 1, 1)
    ELSE CHOOSE n \in Days : args.argv[1] \in ArgsOfDay[n]

\* The most recent Saturday, today included.
LastSaturday == CHOOSE d \in (args.today - 6)..args.today : Weekday(d) = 5

\* C15: _get_saturdays_after returns every Saturday d with
\* dt <= d <= last_sat, dt itself included when it is a Saturday, and
\* nothing else.
C15_AllSaturdaysFromDt ==
    stage = "after_done" =>
        Range(out) = {FormattedSince2017[d] : d \in SaturdaysIn(EarliestDay, LastSaturday)}

====
